---- MODULE Spec2Model ----
(***************************************************************************)
(* mkcert-rs: the install / uninstall / new commands of src/src/main.rs,   *)
(* one step of the code per action, over the three resources the commands  *)
(* touch: the per-user key-material directory, the OS trust store and the  *)
(* persisted identity record (config.json).                                *)
(***************************************************************************)
EXTENDS Integers, Sequences, FiniteSets, TLC

\* Number of key pairs KeyPair::generate_for may hand out in one behaviour.
MaxKeys == 3

VARIABLES
    pc,          \* position of the running command ("idle" between commands)
    cmd,         \* the command being run: "install", "uninstall", "new"
    args,        \* the arguments of `new`: working directory, --cert, --key, --sans
    result,      \* outcome of the command: "running", "ok" or the Error variant
    cfgFile,     \* ~/.config/mkcert-rs/config.json: "absent", "default", "custom", "malformed"
    thumbprint,  \* the thumbprint field of the persisted identity record
    appDir,      \* does ~/Library/Application Support/mkcert-rs exist
    files,       \* content of every file the commands can touch
    trust,       \* certificates held by the login keychain (by public key)
    nextKey,     \* next fresh key pair
    loc,         \* locals of the running command: generated and loaded keys
    trace,       \* the steps the running command has executed, in order
    pre,         \* the resources as they were when the command started
    installed,   \* history: a successful install not yet followed by a successful uninstall
    last         \* history: the command before this one was a successful install from Absent

vars == <<pc, cmd, args, result, cfgFile, thumbprint, appDir, files, trust,
          nextKey, loc, trace, pre, installed, last>>

----------------------------------------------------------------------------
\* Files and their contents

NoThumbprint == 0

\* Option<String> thumbprint of Config::default()
DefaultThumbprint == NoThumbprint

\* {home}/Library/Application Support/mkcert-rs, and another directory
AppDir == "app"
WorkDir == "work"

\* format!("{path}/rootCA.crt"), format!("{path}/rootCA.key"), format!("{path}/rootCA.p12")
RootCrt == <<AppDir, "rootCA.crt">>
RootKey == <<AppDir, "rootCA.key">>
RootP12 == <<AppDir, "rootCA.p12">>
\* the default values of --cert and --key, in the other directory
ServerCrt == <<WorkDir, "server.crt">>
ServerKey == <<WorkDir, "server.key">>

\* the files of the key-material directory, which remove_dir_all removes
AppPaths == {RootCrt, RootKey, RootP12}
WorkPaths == {ServerCrt, ServerKey}
Paths == AppPaths \cup WorkPaths

\* the argument values of `new` before any `new` has run
NoArgs == [cwd |-> WorkDir, cert |-> "server.crt", key |-> "server.key", sans |-> <<>>]

\* --sans lists: empty, one out of order with a duplicate and an IP literal,
\* one the codec rejects
SanLists == {<<>>, <<"b", "a", "10.0.0.1", "b">>, <<"!">>}

Content(kind, key, signer, sans) ==
    [kind |-> kind, key |-> key, signer |-> signer, sans |-> sans]

Absent == Content("absent", 0, 0, <<>>)
\* what a write that failed part-way leaves: text, but no complete PEM block
Partial == Content("partial", 0, 0, <<>>)
\* bytes that are not UTF-8
Binary == Content("binary", 0, 0, <<>>)

\* ca_cert.pem(): the self-signed CA certificate of key pair k
CaCertPem(k) == Content("cacrt", k, k, <<>>)
\* private_key.serialize_pem()
KeyPem(k) == Content("key", k, 0, <<>>)
\* openssl pkcs12 -export -in crt -inkey key
Pkcs12(crt, key) == Content("p12", crt.key, key.key, <<>>)
\* new_certificate.pem(): leaf with key pair k, signed by root key s, SAN list sans
LeafCertPem(k, s, sans) == Content("leafcrt", k, s, sans)

NoLocals == [identity |-> "none", key |-> 0, rootKey |-> 0, rootCert |-> 0, leaf |-> Absent]

Snapshot == [cfgFile |-> cfgFile, files |-> files, appDir |-> appDir, trust |-> trust,
             thumbprint |-> thumbprint]

\* The state Absent of the install/uninstall state machine
IsAbsent(s) ==
    /\ \A p \in AppPaths : s.files[p] = Absent
    /\ s.trust = {}
    /\ s.thumbprint = NoThumbprint

----------------------------------------------------------------------------
Init ==
    /\ pc = "idle"
    /\ cmd = "none"
    /\ args = NoArgs
    /\ result = "none"
    /\ cfgFile \in {"absent", "default", "malformed"}
    /\ thumbprint = DefaultThumbprint
    /\ appDir = FALSE
    /\ files = [p \in Paths |-> Absent]
    /\ trust = {}
    /\ nextKey = 1
    /\ loc = NoLocals
    /\ trace = <<>>
    /\ pre = [cfgFile |-> cfgFile, files |-> files, appDir |-> FALSE, trust |-> {},
              thumbprint |-> DefaultThumbprint]
    /\ installed = FALSE
    /\ last = FALSE


----------------------------------------------------------------------------
\* Control flow shared by the commands

\* `?` on an Err: the command returns the error, no later step runs
Fail(kind) ==
    /\ pc' = "done"
    /\ result' = kind

Goto(p) ==
    /\ pc' = p
    /\ result' = result

\* the running command executed step, which succeeded (ok) or failed
Did(step, ok) == trace' = Append(trace, [step |-> step, ok |-> ok])

\* process start: parse the command line, nothing has been touched yet
Start(c, a) ==
    /\ pc = "idle"
    /\ pc' = "load_config"
    /\ cmd' = c
    /\ args' = a
    /\ result' = "running"
    /\ trace' = <<>>
    /\ loc' = NoLocals
    /\ pre' = Snapshot
    /\ UNCHANGED <<cfgFile, thumbprint, appDir, files, trust, nextKey, installed, last>>

StartInstall ==
    /\ nextKey <= MaxKeys
    /\ Start("install", args)

StartUninstall == Start("uninstall", args)

\* file names that --cert / --key can name in working directory d
NamesIn(d) == IF d = AppDir THEN {"rootCA.crt", "rootCA.key"} ELSE {"server.crt", "server.key"}

StartNew ==
    /\ nextKey <= MaxKeys
    /\ \E d \in {WorkDir, AppDir}, sans \in SanLists :
          /\ d = AppDir => appDir
          /\ \E c \in NamesIn(d), k \in NamesIn(d) :
                Start("new", [cwd |-> d, cert |-> c, key |-> k, sans |-> sans])

\* process exit
Exit ==
    /\ pc = "done"
    /\ pc' = "idle"
    /\ last' = (cmd = "install" /\ result = "ok" /\ IsAbsent(pre))
    /\ cmd' = "none"
    /\ result' = "none"
    /\ trace' = <<>>
    /\ loc' = NoLocals
    /\ pre' = Snapshot
    /\ args' = NoArgs
    /\ UNCHANGED <<cfgFile, thumbprint, appDir, files, trust, nextKey, installed>>

\* fs::write(path, bytes) that returned Err: the file is as it was (it could
\* not be opened) or holds a truncated prefix
FailedWrite(old) == {old, Partial}

----------------------------------------------------------------------------
\* pre_main: load the identity record, creating it with defaults when absent

LoadConfigOutcomes ==
    IF cfgFile = "absent"
    THEN {"mkdir_fail", "write_fail", "read_fail", "ok"}
    ELSE {"read_fail", "ok"}

\* which command body runs after the identity record was loaded
Dispatch(c) ==
    CASE c = "install" -> "generate_ca"
      [] c = "uninstall" -> "trust_remove"
      [] c = "new" -> "read_root_key"

\* Variant of WrittenConfig: the defaults are written without the test of
\* Path::new(&config_path).exists()
WrittenConfigUnconditional(c) == "default"

\* if !Path::new(&config_path).exists() { fs::write(&config_path, Config::default()) }:
\* the file once the write has succeeded
WrittenConfig(c) == IF c = "absent" THEN "default" ELSE c

LoadConfig ==
    /\ pc = "load_config"
    /\ \E o \in LoadConfigOutcomes :
          \/ /\ o = "mkdir_fail"
             /\ Fail("io")
             /\ Did("load_config", FALSE)
             /\ UNCHANGED <<cfgFile, thumbprint, loc>>
          \/ /\ o = "write_fail"
             /\ Fail("io")
             /\ Did("load_config", FALSE)
             /\ cfgFile' \in {"absent", "malformed"}
             /\ UNCHANGED <<thumbprint, loc>>
          \/ /\ o = "read_fail"
             /\ Fail("io")
             /\ Did("load_config", FALSE)
             /\ cfgFile' = WrittenConfig(cfgFile)
             /\ thumbprint' = IF cfgFile = "absent" THEN DefaultThumbprint ELSE thumbprint
             /\ UNCHANGED loc
          \/ /\ o = "ok"
             /\ WrittenConfig(cfgFile) = "malformed"
             /\ Fail("config")
             /\ Did("load_config", FALSE)
             /\ UNCHANGED <<cfgFile, thumbprint, loc>>
          \/ /\ o = "ok"
             /\ WrittenConfig(cfgFile) # "malformed"
             /\ Goto(Dispatch(cmd))
             /\ Did("load_config", TRUE)
             /\ cfgFile' = WrittenConfig(cfgFile)
             /\ thumbprint' = IF cfgFile = "absent" THEN DefaultThumbprint ELSE thumbprint
             /\ loc' = [loc EXCEPT !.identity = WrittenConfig(cfgFile)]
    /\ UNCHANGED <<cmd, args, appDir, files, trust, nextKey, pre, installed, last>>

----------------------------------------------------------------------------
\* Config::install

\* KeyPair::generate_for and cert.self_signed(&private_key)
GenerateCa ==
    /\ pc = "generate_ca"
    /\ \E ok \in BOOLEAN :
          /\ Did("generate_ca", ok)
          /\ IF ok
             THEN /\ Goto("create_dir")
                  /\ loc' = [loc EXCEPT !.key = nextKey]
                  /\ nextKey' = nextKey + 1
             ELSE /\ Fail("rcgen")
                  /\ UNCHANGED <<loc, nextKey>>
    /\ UNCHANGED <<cmd, args, cfgFile, thumbprint, appDir, files, trust, pre, installed, last>>

\* fs::create_dir_all(&path)
CreateDir ==
    /\ pc = "create_dir"
    /\ \E ok \in BOOLEAN :
          /\ Did("create_dir", ok)
          /\ IF ok
             THEN /\ Goto("write_root_cert")
                  /\ appDir' = TRUE
             ELSE /\ Fail("io")
                  /\ UNCHANGED appDir
    /\ UNCHANGED <<cmd, args, cfgFile, thumbprint, files, trust, nextKey, loc, pre, installed, last>>

\* fs::write(&root_cert_path, ca_cert.pem())
WriteRootCert ==
    /\ pc = "write_root_cert"
    /\ \E ok \in BOOLEAN :
          /\ Did("write_root_cert", ok)
          /\ IF ok
             THEN /\ Goto("write_root_key")
                  /\ files' = [files EXCEPT ![RootCrt] = CaCertPem(loc.key)]
             ELSE /\ Fail("io")
                  /\ \E c \in FailedWrite(files[RootCrt]) :
                        files' = [files EXCEPT ![RootCrt] = c]
    /\ UNCHANGED <<cmd, args, cfgFile, thumbprint, appDir, trust, nextKey, loc, pre, installed, last>>

\* Variant of AfterWriteRootKey: the Result of the write is dropped
AfterWriteRootKeyUnchecked(ok) == "trust_add"

\* fs::write(&root_key_path, ..)?: the `?` after the write of the key file
AfterWriteRootKey(ok) == IF ok THEN "trust_add" ELSE "io"

\* fs::write(&root_key_path, private_key.serialize_pem())
WriteRootKey ==
    /\ pc = "write_root_key"
    /\ \E ok \in BOOLEAN :
          /\ Did("write_root_key", ok)
          /\ IF AfterWriteRootKey(ok) = "trust_add"
             THEN Goto("trust_add")
             ELSE Fail(AfterWriteRootKey(ok))
          /\ IF ok
             THEN files' = [files EXCEPT ![RootKey] = KeyPem(loc.key)]
             ELSE \E c \in FailedWrite(files[RootKey]) :
                     files' = [files EXCEPT ![RootKey] = c]
    /\ UNCHANGED <<cmd, args, cfgFile, thumbprint, appDir, trust, nextKey, loc, pre, installed, last>>

\* what an external command did: it could not be started, it exited with a
\* non-success status, or it exited with success
CommandOutcomes == {"spawn_fail", "nonzero", "success"}

\* Variant of AfterTrustAdd: the exit status of the command is not tested
AfterTrustAddUntested(o) == IF o = "spawn_fail" THEN "io" ELSE "export_p12"

\* .output()? followed by the test of command.status.success()
AfterTrustAdd(o) ==
    CASE o = "spawn_fail" -> "io"
      [] o = "nonzero" -> "cert"
      [] o = "success" -> "export_p12"

\* Variant of InstallIdentity: the thumbprint is written as soon as the
\* trust-store command has been run, before its status is looked at
InstallIdentityBeforeStatus(t, k, step) == IF step = "trust_add" THEN k ELSE t

\* the thumbprint of the identity record once install has run step for the
\* CA of key pair k: install never writes the record
InstallIdentity(t, k, step) == t

\* security add-trusted-cert -k login.keychain-db rootCA.crt
TrustAdd ==
    /\ pc = "trust_add"
    /\ \E o \in CommandOutcomes :
          /\ Did("trust_add", o = "success")
          /\ IF AfterTrustAdd(o) = "export_p12"
             THEN /\ Goto("export_p12")
                  /\ trust' = trust \cup {files[RootCrt].key}
             ELSE /\ Fail(AfterTrustAdd(o))
                  /\ UNCHANGED trust
    /\ thumbprint' = InstallIdentity(thumbprint, loc.key, "trust_add")
    /\ UNCHANGED <<cmd, args, cfgFile, appDir, files, nextKey, loc, pre, installed, last>>

\* Variant of AfterExport: the converter's spawn error is propagated with `?`
AfterExportPropagated(o) == IF o = "spawn_fail" THEN "io" ELSE "ok"

\* if let Ok(command) = command { if command.status.success() { println } }; Ok(())
AfterExport(o) == "ok"

\* openssl pkcs12 -export -in rootCA.crt -inkey rootCA.key -out rootCA.p12
ExportP12 ==
    /\ pc = "export_p12"
    /\ \E o \in CommandOutcomes :
          /\ Did("export_p12", o = "success")
          /\ pc' = "done"
          /\ result' = AfterExport(o)
          /\ installed' = IF AfterExport(o) = "ok" THEN TRUE ELSE installed
          /\ files' = IF o = "success"
                      THEN [files EXCEPT ![RootP12] = Pkcs12(files[RootCrt], files[RootKey])]
                      ELSE files
    /\ thumbprint' = InstallIdentity(thumbprint, loc.key, "export_p12")
    /\ UNCHANGED <<cmd, args, cfgFile, appDir, trust, nextKey, loc, pre, last>>

----------------------------------------------------------------------------
\* Config::uninstall

\* Variant of AfterTrustRemove: the exit status of the command is not tested
AfterTrustRemoveUntested(o) == IF o = "spawn_fail" THEN "io" ELSE "remove_dir"

\* .output()? followed by the test of command.status.success()
AfterTrustRemove(o) ==
    CASE o = "spawn_fail" -> "io"
      [] o = "nonzero" -> "cert"
      [] o = "success" -> "remove_dir"

\* security delete-certificate -c <common name> -t login.keychain-db: every
\* certificate of the tool carries the same common name; success deletes one
TrustRemove ==
    /\ pc = "trust_remove"
    /\ \E o \in CommandOutcomes :
          /\ o = "success" => trust # {}
          /\ Did("trust_remove", o = "success")
          /\ IF AfterTrustRemove(o) = "remove_dir"
             THEN Goto("remove_dir")
             ELSE Fail(AfterTrustRemove(o))
          /\ IF o = "success"
             THEN \E k \in trust : trust' = trust \ {k}
             ELSE UNCHANGED trust
    /\ UNCHANGED <<cmd, args, cfgFile, thumbprint, appDir, files, nextKey, loc, pre, installed, last>>

\* the files left once the paths of gone have been removed
Without(f, gone) == [p \in Paths |-> IF p \in gone THEN Absent ELSE f[p]]

\* Variant of RemoveDirAll: the two PEM files are removed one by one and the
\* PKCS#12 export is left behind
RemoveDirAllButP12(f) == Without(f, {RootCrt, RootKey})

\* fs::remove_dir_all(path) that returned Ok
RemoveDirAll(f) == Without(f, AppPaths)

\* fs::remove_dir_all(path)?; Ok(())
RemoveDir ==
    /\ pc = "remove_dir"
    /\ pc' = "done"
    /\ \/ /\ appDir
          /\ Did("remove_dir", TRUE)
          /\ result' = "ok"
          /\ files' = RemoveDirAll(files)
          /\ appDir' = FALSE
          /\ installed' = FALSE
       \/ /\ appDir
          /\ Did("remove_dir", FALSE)
          /\ result' = "io"
          /\ \E gone \in SUBSET AppPaths : files' = Without(files, gone)
          /\ UNCHANGED <<appDir, installed>>
       \/ /\ ~appDir
          /\ Did("remove_dir", FALSE)
          /\ result' = "io"
          /\ UNCHANGED <<files, appDir, installed>>
    /\ UNCHANGED <<cmd, args, cfgFile, thumbprint, trust, nextKey, loc, pre, last>>

----------------------------------------------------------------------------
\* Config::new_cert

\* std::str::from_utf8(bytes).unwrap() and KeyPair::from_pem(text)? on the
\* bytes fs::read returned
ParseKey(c) ==
    CASE c.kind \in {"binary", "p12"} -> "panic"
      [] c.kind = "key" -> "ok"
      [] OTHER -> "rcgen"

\* std::str::from_utf8(bytes).unwrap() and CertificateParams::from_ca_cert_pem(text)?
ParseCert(c) ==
    CASE c.kind \in {"binary", "p12"} -> "panic"
      [] c.kind \in {"cacrt", "leafcrt"} -> "ok"
      [] OTHER -> "rcgen"

\* fs::read(root_key_path)?: an absent file is an error, a present one may fail to read
ReadOutcomes(c) == IF c = Absent THEN {FALSE} ELSE BOOLEAN

ReadRootKey ==
    /\ pc = "read_root_key"
    /\ \E readOk \in ReadOutcomes(files[RootKey]) :
          \/ /\ ~readOk
             /\ trace' = trace \o <<[step |-> "read_root_key", ok |-> FALSE]>>
             /\ Fail("io")
             /\ UNCHANGED loc
          \/ /\ readOk
             /\ ParseKey(files[RootKey]) # "ok"
             /\ trace' = trace \o <<[step |-> "read_root_key", ok |-> TRUE],
                                    [step |-> "parse_root_key", ok |-> FALSE]>>
             /\ Fail(ParseKey(files[RootKey]))
             /\ UNCHANGED loc
          \/ /\ readOk
             /\ ParseKey(files[RootKey]) = "ok"
             /\ trace' = trace \o <<[step |-> "read_root_key", ok |-> TRUE],
                                    [step |-> "parse_root_key", ok |-> TRUE]>>
             /\ Goto("read_root_cert")
             /\ loc' = [loc EXCEPT !.rootKey = files[RootKey].key]
    /\ UNCHANGED <<cmd, args, cfgFile, thumbprint, appDir, files, trust, nextKey, pre, installed, last>>

\* fs::read(root_cert_path)?, from_ca_cert_pem(..)?, and the certificate is
\* signed again with the loaded key: .self_signed(&root_key)?
ReadRootCert ==
    /\ pc = "read_root_cert"
    /\ \E readOk \in ReadOutcomes(files[RootCrt]), signOk \in BOOLEAN :
          \/ /\ ~readOk
             /\ signOk
             /\ trace' = trace \o <<[step |-> "read_root_cert", ok |-> FALSE]>>
             /\ Fail("io")
             /\ UNCHANGED loc
          \/ /\ readOk
             /\ signOk
             /\ ParseCert(files[RootCrt]) # "ok"
             /\ trace' = trace \o <<[step |-> "read_root_cert", ok |-> TRUE],
                                    [step |-> "parse_root_cert", ok |-> FALSE]>>
             /\ Fail(ParseCert(files[RootCrt]))
             /\ UNCHANGED loc
          \/ /\ readOk
             /\ ParseCert(files[RootCrt]) = "ok"
             /\ trace' = trace \o <<[step |-> "read_root_cert", ok |-> TRUE],
                                    [step |-> "parse_root_cert", ok |-> TRUE],
                                    [step |-> "sign_root_cert", ok |-> signOk]>>
             /\ IF signOk
                THEN /\ Goto("issue_leaf")
                     /\ loc' = [loc EXCEPT !.rootCert = files[RootCrt].key]
                ELSE /\ Fail("rcgen")
                     /\ UNCHANGED loc
    /\ UNCHANGED <<cmd, args, cfgFile, thumbprint, appDir, files, trust, nextKey, pre, installed, last>>

\* CertificateParams::new(sans)?: each entry must encode as an IP address or a DNS name
SansParse(sans) == \A i \in 1..Len(sans) : sans[i] # "!"

\* IpAddr::from_str(&s) is Ok
IsIpLiteral(s) == s \in {"10.0.0.1"}

\* match IpAddr::from_str(&s) { Ok(ip) => SanType::IpAddress(ip), Err(_) => SanType::DnsName(s) }
SanType(s) ==
    IF IsIpLiteral(s) THEN [type |-> "ip", value |-> s] ELSE [type |-> "dns", value |-> s]

\* Variant of SubjectAltNames: the entries are collected by prepending
SubjectAltNamesReversed(sans) == [i \in 1..Len(sans) |-> SanType(sans[Len(sans) + 1 - i])]

\* subject_alt_names.into_iter().map(..).collect(): one SAN per entry, in the order given
SubjectAltNames(sans) == [i \in 1..Len(sans) |-> SanType(sans[i])]

\* KeyPair::generate_for(..)?, CertificateParams::new(sans)?, the five
\* distinguished-name pushes, signed_by(&new_key, &root_cert, &root_key)?
IssueLeaf ==
    /\ pc = "issue_leaf"
    /\ \E genOk \in BOOLEAN, signOk \in BOOLEAN :
          LET ok == genOk /\ SansParse(args.sans) /\ signOk IN
          /\ Did("issue_leaf", ok)
          /\ IF ok
             THEN /\ Goto("write_leaf_cert")
                  /\ loc' = [loc EXCEPT !.key = nextKey,
                                        !.leaf = LeafCertPem(nextKey, loc.rootKey,
                                                             SubjectAltNames(args.sans))]
                  /\ nextKey' = nextKey + 1
             ELSE /\ Fail("rcgen")
                  /\ UNCHANGED <<loc, nextKey>>
    /\ UNCHANGED <<cmd, args, cfgFile, thumbprint, appDir, files, trust, pre, installed, last>>

\* format!("{path}/{cert_name}") with path = current_dir(): the file named
\* name in directory d
Resolve(d, name) == <<d, name>>

\* std::env::current_dir()? and fs::write(path/cert_name, new_certificate.pem())?
WriteLeafCert ==
    /\ pc = "write_leaf_cert"
    /\ \E o \in {"cwd_fail", "write_fail", "ok"} :
          /\ Did("write_leaf_cert", o = "ok")
          /\ \/ /\ o = "cwd_fail"
                /\ Fail("io")
                /\ UNCHANGED files
             \/ /\ o = "write_fail"
                /\ Fail("io")
                /\ \E c \in FailedWrite(files[Resolve(args.cwd, args.cert)]) :
                      files' = [files EXCEPT ![Resolve(args.cwd, args.cert)] = c]
             \/ /\ o = "ok"
                /\ Goto("write_leaf_key")
                /\ files' = [files EXCEPT ![Resolve(args.cwd, args.cert)] = loc.leaf]
    /\ UNCHANGED <<cmd, args, cfgFile, thumbprint, appDir, trust, nextKey, loc, pre, installed, last>>

\* fs::write(path/key_name, new_key.serialize_pem())?; Ok(())
WriteLeafKey ==
    /\ pc = "write_leaf_key"
    /\ pc' = "done"
    /\ \E ok \in BOOLEAN :
          /\ Did("write_leaf_key", ok)
          /\ IF ok
             THEN /\ result' = "ok"
                  /\ files' = [files EXCEPT ![Resolve(args.cwd, args.key)] = KeyPem(loc.key)]
             ELSE /\ result' = "io"
                  /\ \E c \in FailedWrite(files[Resolve(args.cwd, args.key)]) :
                        files' = [files EXCEPT ![Resolve(args.cwd, args.key)] = c]
    /\ UNCHANGED <<cmd, args, cfgFile, thumbprint, appDir, trust, nextKey, loc, pre, installed, last>>

----------------------------------------------------------------------------
\* The persisted root key or certificate file is damaged outside the tool:
\* cut short, or overwritten with bytes that are not text
CorruptFile ==
    /\ pc = "idle"
    /\ \E p \in {RootCrt, RootKey}, c \in {Partial, Binary} :
          /\ files[p] \notin {Absent, Partial, Binary}
          /\ files' = [files EXCEPT ![p] = c]
    /\ pre' = [pre EXCEPT !.files = files']
    /\ last' = FALSE
    /\ UNCHANGED <<pc, cmd, args, result, cfgFile, thumbprint, appDir, trust, nextKey,
                   loc, trace, installed>>

Next ==
    \/ StartInstall
    \/ StartUninstall
    \/ StartNew
    \/ LoadConfig
    \/ GenerateCa
    \/ CreateDir
    \/ WriteRootCert
    \/ WriteRootKey
    \/ TrustAdd
    \/ ExportP12
    \/ TrustRemove
    \/ RemoveDir
    \/ ReadRootKey
    \/ ReadRootCert
    \/ IssueLeaf
    \/ WriteLeafCert
    \/ WriteLeafKey
    \/ Exit
    \/ CorruptFile

Spec == Init /\ [][Next]_vars

\* The user edits the attributes of the identity file between two commands
EditConfig ==
    /\ pc = "idle"
    /\ cfgFile = "default"
    /\ cfgFile' = "custom"
    /\ pre' = [pre EXCEPT !.cfgFile = "custom"]
    /\ UNCHANGED <<pc, cmd, args, result, thumbprint, appDir, files, trust, nextKey, loc,
                   trace, installed, last>>

\* Any sequence of install and uninstall commands
NextInstallUninstall ==
    \/ StartInstall
    \/ StartUninstall
    \/ LoadConfig
    \/ GenerateCa
    \/ CreateDir
    \/ WriteRootCert
    \/ WriteRootKey
    \/ TrustAdd
    \/ ExportP12
    \/ TrustRemove
    \/ RemoveDir
    \/ Exit

SpecInstallUninstall == Init /\ [][NextInstallUninstall]_vars

\* Install and uninstall commands on an identity file the user may edit
SpecIdentity == Init /\ [][NextInstallUninstall \/ EditConfig]_vars

\* install started by a user who has no CA installed
InstallWhenNotInstalled ==
    /\ ~installed
    /\ StartInstall

\* One install, then uninstall repeated until it succeeds
NextRepeatUninstall ==
    \/ InstallWhenNotInstalled
    \/ StartUninstall
    \/ LoadConfig
    \/ GenerateCa
    \/ CreateDir
    \/ WriteRootCert
    \/ WriteRootKey
    \/ TrustAdd
    \/ ExportP12
    \/ TrustRemove
    \/ RemoveDir
    \/ Exit

\* the outcomes of the external steps of uninstall in which the step succeeds
LoadConfigOk == LoadConfig /\ pc' # "done"
TrustRemoveOk == TrustRemove /\ trust' # trust
RemoveDirOk == RemoveDir /\ result' = "ok"

\* The user keeps running uninstall, a running command goes on to its next
\* step and returns, and a step whose target exists does not fail forever
RepeatUninstallFairness ==
    /\ WF_vars(StartUninstall)
    /\ WF_vars(LoadConfig)
    /\ WF_vars(TrustRemove)
    /\ WF_vars(RemoveDir)
    /\ WF_vars(Exit)
    /\ SF_vars(LoadConfigOk)
    /\ SF_vars(TrustRemoveOk)
    /\ SF_vars(RemoveDirOk)

SpecRepeatUninstall ==
    Init /\ [][NextRepeatUninstall]_vars /\ RepeatUninstallFairness

----------------------------------------------------------------------------
\* Observations on the running command

Ran(step) == \E i \in 1..Len(trace) : trace[i].step = step
Succeeded(step) == \E i \in 1..Len(trace) : trace[i].step = step /\ trace[i].ok
Failed(step) == \E i \in 1..Len(trace) : trace[i].step = step /\ ~trace[i].ok

AtRest == pc \in {"idle", "done"}
Finished(c) == cmd = c /\ pc = "done"

\* the key-material directory is as it was when the command started
KeyMaterialUntouched ==
    /\ appDir = pre.appDir
    /\ \A p \in AppPaths : files[p] = pre.files[p]

----------------------------------------------------------------------------
\* C1: between commands, the persisted thumbprint is set if and only if the
\* last successful install has not been followed by a successful uninstall.
C1_ThumbprintIffInstalled ==
    AtRest => ((thumbprint # NoThumbprint) <=> installed)

C3_TrustAddFailure ==
    (Finished("install") /\ Failed("trust_add")) =>
        /\ result = "cert"
        /\ thumbprint = NoThumbprint
        /\ trust = pre.trust
        /\ ~Ran("export_p12")
        /\ \A p \in Paths \ {RootCrt, RootKey} : files[p] = pre.files[p]

\* C4: uninstall started with no thumbprint recorded makes no trust-store
\* removal call and no deletion, and ends with the not-installed error.
C4_UninstallNotInstalled ==
    (cmd = "uninstall" /\ pre.thumbprint = NoThumbprint) =>
        /\ ~Ran("trust_remove")
        /\ ~Ran("remove_dir")
        /\ (pc = "done" /\ Succeeded("load_config")) => result = "not_installed"

\* C5: when the trust-store removal step of uninstall fails, uninstall
\* returns an error and the key-material directory and the recorded
\* thumbprint are as they were before the command.
C5_RemovalFailureTouchesNothing ==
    (Finished("uninstall") /\ Failed("trust_remove")) =>
        /\ result \in {"io", "cert"}
        /\ KeyMaterialUntouched
        /\ thumbprint = pre.thumbprint

C5_Witness ==
    /\ Finished("uninstall")
    /\ Failed("trust_remove")
    /\ files[RootCrt] # Absent
    /\ files[RootKey] # Absent
    /\ trust # {}

\* C6: when trust-store removal succeeds and the deletion of the key
\* material fails, uninstall of an installed CA returns an I/O error and the
\* thumbprint is still recorded.
C6_ThumbprintKeptOnDeleteFailure ==
    (Finished("uninstall") /\ Succeeded("trust_remove") /\ Failed("remove_dir") /\ installed) =>
        /\ result = "io"
        /\ thumbprint # NoThumbprint

\* C7: a successful install from Absent immediately followed by a successful
\* uninstall ends in Absent: no thumbprint, no root key, certificate or
\* PKCS#12 file, no entry in the trust store.
C7_InstallUninstallRoundTrip ==
    (Finished("uninstall") /\ result = "ok" /\ last) =>
        /\ IsAbsent(Snapshot)
        /\ ~appDir

\* the round trip, in a run where the PKCS#12 export had been written
C7_Witness ==
    /\ Finished("uninstall")
    /\ result = "ok"
    /\ last
    /\ pre.files[RootP12] # Absent
    /\ pre.trust # {}

\* C8: new writes nothing unless loading the root key, loading the root
\* certificate, SAN parsing and signing all succeeded; with the root key or
\* certificate absent it ends with the not-found (I/O) error, with either
\* malformed it ends with the parse error.
C8_NewFailsCleanly ==
    cmd = "new" =>
        /\ (\E p \in Paths : files[p] # pre.files[p]) => Succeeded("issue_leaf")
        /\ (pc = "done" /\ Failed("read_root_key") /\ pre.files[RootKey] = Absent) => result = "io"
        /\ (pc = "done" /\ Failed("read_root_cert") /\ pre.files[RootCrt] = Absent) => result = "io"
        /\ (pc = "done" /\ Failed("parse_root_key")) => result = "rcgen"
        /\ (pc = "done" /\ Failed("parse_root_cert")) => result = "rcgen"

\* C9: new leaves the root key file, the root certificate file, the trust
\* store and the recorded thumbprint as they were, whatever its arguments and
\* its outcome.
C9_NewOnlyReads ==
    cmd = "new" =>
        /\ files[RootKey] = pre.files[RootKey]
        /\ files[RootCrt] = pre.files[RootCrt]
        /\ trust = pre.trust
        /\ thumbprint = pre.thumbprint

\* C10: an install that reached the PKCS#12 export ends in success whatever
\* the export did, with the root key, the root certificate, the trust-store
\* entry and the thumbprint that a run with a successful export has.
C10_ExportFailureIsNotFatal ==
    (Finished("install") /\ Ran("export_p12")) =>
        /\ result = "ok"
        /\ files[RootCrt] = CaCertPem(loc.key)
        /\ files[RootKey] = KeyPem(loc.key)
        /\ loc.key \in trust
        /\ thumbprint = pre.thumbprint
        /\ installed

C10_Witness ==
    /\ Finished("install")
    /\ Failed("export_p12")
    /\ result = "ok"

\* the values of result that make the process exit with a non-zero status
ErrorOutcomes == {"io", "rcgen", "cert", "config", "panic"}

\* the steps a command must have completed to return Ok(())
MandatorySteps(c) ==
    CASE c = "install" -> {"load_config", "generate_ca", "create_dir", "write_root_cert",
                           "write_root_key", "trust_add"}
      [] c = "uninstall" -> {"load_config", "trust_remove", "remove_dir"}
      [] c = "new" -> {"load_config", "read_root_key", "parse_root_key", "read_root_cert",
                       "parse_root_cert", "sign_root_cert", "issue_leaf", "write_leaf_cert",
                       "write_leaf_key"}
      [] OTHER -> {}

\* C11: a step other than the PKCS#12 export that fails is the last step the
\* command executes and the command ends with an error outcome; a command
\* that ends in success has completed every one of its mandatory steps.
C11_FailurePropagates ==
    /\ \A i \in 1..Len(trace) :
          (~trace[i].ok /\ trace[i].step # "export_p12") =>
              /\ i = Len(trace)
              /\ pc = "done"
              /\ result \in ErrorOutcomes
    /\ (pc = "done" /\ result = "ok") => \A st \in MandatorySteps(cmd) : Succeeded(st)

\* the trust-store command of install exited with a non-success status
C11_Witness ==
    /\ Finished("install")
    /\ Failed("trust_add")
    /\ result = "cert"

\* C12: a load that finds the identity file absent creates it with the
\* default attributes and no thumbprint and returns the defaults; a load
\* that finds the file present returns its contents and leaves the file and
\* the thumbprint it records as they were.
C12_LoadCreatesOrPreserves ==
    Ran("load_config") =>
        /\ (pre.cfgFile = "absent" /\ Succeeded("load_config")) =>
              /\ cfgFile = "default"
              /\ loc.identity = "default"
              /\ thumbprint = DefaultThumbprint
        /\ pre.cfgFile # "absent" =>
              /\ cfgFile = pre.cfgFile
              /\ thumbprint = pre.thumbprint
              /\ Succeeded("load_config") => loc.identity = pre.cfgFile

\* the first load on a machine without an identity file
C12_Witness ==
    /\ Succeeded("load_config")
    /\ pre.cfgFile = "absent"
    /\ cfgFile = "default"

\* a load of an identity file the user has edited
C12_WitnessPresent ==
    /\ Succeeded("load_config")
    /\ pre.cfgFile = "custom"
    /\ loc.identity = "custom"

\* C13: a leaf certificate that new issues is signed with the root private
\* key persisted on disk, and the public key of the root certificate
\* persisted on disk at that time is the key that signed it, so the leaf
\* chain-validates against the persisted root certificate.
C13_LeafChainsToPersistedRoot ==
    (cmd = "new" /\ Succeeded("issue_leaf")) =>
        /\ loc.leaf.signer = pre.files[RootKey].key
        /\ loc.leaf.signer = pre.files[RootCrt].key

C14_WitnessEmpty ==
    /\ cmd = "new"
    /\ pc = "write_leaf_key"
    /\ args.sans = <<>>
    /\ files[Resolve(args.cwd, args.cert)].kind = "leafcrt"

\* the steps of install, in the order of the code
InstallOrder ==
    <<"load_config", "generate_ca", "create_dir", "write_root_cert", "write_root_key",
      "trust_add", "export_p12">>

\* C15: the steps of one install run occur in the order generate, write the
\* root certificate, write the root key, add to the trust store; the
\* trust-store add is attempted only after both files were written, and the
\* thumbprint is changed only after the trust-store add succeeded.
C15_InstallStepOrder ==
    cmd = "install" =>
        /\ Len(trace) <= Len(InstallOrder)
        /\ \A i \in 1..Len(trace) : trace[i].step = InstallOrder[i]
        /\ Ran("trust_add") =>
              /\ Succeeded("generate_ca")
              /\ Succeeded("write_root_cert")
              /\ Succeeded("write_root_key")
              /\ files[RootCrt] = CaCertPem(loc.key)
              /\ files[RootKey] = KeyPem(loc.key)
        /\ thumbprint # pre.thumbprint => Succeeded("trust_add")

\* install has added its CA to the trust store and goes on to the export
C15_Witness ==
    /\ cmd = "install"
    /\ pc = "export_p12"
    /\ Succeeded("trust_add")
    /\ files[RootCrt].key \in trust

\* C16: after any sequence of install and uninstall runs, whatever steps
\* failed, a root certificate and a root key that lie side by side in the
\* key-material directory come from the same generation.
C16_RootPairFromOneGeneration ==
    (AtRest /\ files[RootCrt].kind = "cacrt" /\ files[RootKey].kind = "key") =>
        files[RootCrt].key = files[RootKey].key

\* C17: after any sequence of install and uninstall runs the trust store
\* holds at most one CA certificate added by the tool, and after a completed
\* install that certificate is the one on disk.
C17_AtMostOneTrustedCa ==
    AtRest =>
        /\ Cardinality(trust) <= 1
        /\ (Finished("install") /\ result = "ok") => trust = {files[RootCrt].key}

\* C18: once a CA is installed, repeating uninstall eventually reaches the
\* state Absent, whatever uninstall attempts failed on the way, provided each
\* external step eventually succeeds when its target exists.
C18_RepeatedUninstallReachesAbsent == installed ~> IsAbsent(Snapshot)

====
